---- MODULE Spec2Model ----
(***************************************************************************)
(* Model of the recommendation core of sg-makan-recommender                *)
(* (backend/ai_system.py, backend/config.py, backend/models.py).           *)
(*                                                                         *)
(* Money is counted in whole dollars and scores are exact fractions        *)
(* <<numerator, denominator>> (the code uses floats; the model abstracts   *)
(* from rounding).  Reason strings that embed a dish                       *)
(* attribute are tuples <<prefix, attribute>>; fixed reasons are 1-tuples. *)
(***************************************************************************)
EXTENDS Integers, Sequences, FiniteSets, TLC

VARIABLES
    max_recommendations,  \* settings.max_recommendations
    scoring_config,       \* scoring_config.{CUISINE,HALAL,VEGETARIAN,MEAL_TYPE}_BONUS
    fuzzy_config_doc,     \* content of the document at settings.fuzzy_config_path
    dishes,               \* RecommendationEngine.dishes
    user_prefs,           \* RecommendationEngine.user_prefs
    scored_dishes,        \* RecommendationEngine.scored_dishes
    result,               \* value returned by the last get_recommendations call
    calls,                \* get_recommendations calls made on this instance
    first_result,         \* value returned by the first call for these inputs
    requests,             \* the /recommend requests in progress, per request
    engines,              \* scored_dishes of the engine instances in use
    fuzzy_call,           \* the last call of fuzzy_membership or fuzzy_engine
    _fuzzy_system_cache,  \* the module global of that name
    load_attempts,        \* document reads and create_fuzzy_system runs so far
    callers               \* the threads calling get_fuzzy_system, per thread

\* the state of the recommendation engine and of its requests
engine_vars ==
    <<max_recommendations, scoring_config, dishes, user_prefs, scored_dishes,
      result, calls, first_result, requests, engines>>

\* the state of direct calls into the fuzzy layer
fuzzy_vars == <<fuzzy_call, _fuzzy_system_cache, load_attempts, callers>>

vars == <<max_recommendations, scoring_config, fuzzy_config_doc, dishes,
          user_prefs, scored_dishes, result, calls, first_result,
          requests, engines, fuzzy_call, _fuzzy_system_cache, load_attempts,
          callers>>

(***************************************************************************)
(* Bounds of the model                                                     *)
(***************************************************************************)
MaxDishes == 3
MaxCalls == 2

(***************************************************************************)
(* Python values                                                           *)
(***************************************************************************)
None == "<None>"

\* what a dict holds for a key it does not have: d[key] raises KeyError,
\* d.get(key, default) yields the default
Missing == "<missing>"

\* str.lower() on the strings that occur in the model
Lower(s) ==
    CASE s = "Chinese" -> "chinese"
      [] s = "Malay" -> "malay"
      [] s = "ANY" -> "any"
      [] s = "Any" -> "any"
      [] s = "Main_Course" -> "main_course"
      [] s = "Dessert" -> "dessert"
      [] OTHER -> s

\* truth value of an Optional[str] in a condition
Truthy(s) == s # None /\ s # ""

(***************************************************************************)
(* Exact fractions <<numerator, denominator>> (denominator > 0) standing   *)
(* in for the floats of the code                                           *)
(***************************************************************************)
Frac(n) == <<n, 1>>
FracLt(x, y) == x[1] * y[2] < y[1] * x[2]
FracLe(x, y) == x[1] * y[2] <= y[1] * x[2]
FracEq(x, y) == x[1] * y[2] = y[1] * x[2]
FracPlus(x, n) == <<x[1] + n * x[2], x[2]>>

\* the built-ins min and max over a non-empty set of integers
MinOf(S) == CHOOSE m \in S : \A x \in S : m <= x
MaxOf(S) == CHOOSE m \in S : \A x \in S : x <= m

RECURSIVE Gcd(_, _)
Gcd(a, b) == IF b = 0 THEN a ELSE Gcd(b, a % b)

RECURSIVE LcmOf(_)
LcmOf(S) ==
    IF S = {} THEN 1
    ELSE LET w == CHOOSE x \in S : TRUE
             rest == LcmOf(S \ {w})
         IN  (w * rest) \div Gcd(w, rest)

(***************************************************************************)
(* Fuzzy configuration document and inference                              *)
(***************************************************************************)
\* The terms the document at settings.fuzzy_config_path declares: one entry
\* per linguistic variable, each term a triangle <<low, mid, high>>.
FuzzyTerms ==
    [budget |-> [universe_range |-> <<0, 50>>,
                 terms |-> [low |-> <<0, 0, 15>>,
                            medium |-> <<10, 25, 40>>,
                            high |-> <<30, 50, 50>>]],
     spiciness |-> [universe_range |-> <<0, 10>>,
                    terms |-> [mild |-> <<0, 0, 4>>,
                               medium |-> <<2, 5, 8>>,
                               spicy |-> <<6, 10, 10>>]],
     recommendation_score |-> [universe_range |-> <<0, 10>>,
                               terms |-> [low |-> <<0, 0, 4>>,
                                          medium |-> <<2, 5, 8>>,
                                          high |-> <<6, 10, 10>>]]]

\* The documents a deployment can have: a readable well-formed one, or none
\* (open() raises FileNotFoundError).
FuzzyConfigDocuments ==
    {[readable |-> TRUE, content |-> FuzzyTerms],
     [readable |-> FALSE, content |-> <<>>]}

\* load_fuzzy_config: the parsed document, or the exception it re-raises
load_fuzzy_config(doc) ==
    IF doc.readable THEN [raised |-> FALSE, config |-> doc.content]
    ELSE [raised |-> TRUE, config |-> <<>>]

\* a membership whose rising ramp is not divided by its width
fuzzy_membership_unscaled(value, low, mid, high) ==
    IF value <= low THEN (IF value = low THEN Frac(1) ELSE Frac(0))
    ELSE IF value <= mid THEN Frac(value - low)
    ELSE IF value <= high
         THEN (IF high # mid THEN <<high - value, high - mid>> ELSE Frac(1))
    ELSE Frac(0)

\* a membership that stays at 1 above the term
fuzzy_membership_saturating(value, low, mid, high) ==
    IF value <= low THEN (IF value = low THEN Frac(1) ELSE Frac(0))
    ELSE IF value <= mid
         THEN (IF mid # low THEN <<value - low, mid - low>> ELSE Frac(1))
    ELSE IF value <= high
         THEN (IF high # mid THEN <<high - value, high - mid>> ELSE Frac(1))
    ELSE Frac(1)

\* Triangular membership of a value in the term <<low, mid, high>>, as an
\* exact fraction
fuzzy_membership(value, low, mid, high) ==
    IF value <= low THEN (IF value = low THEN Frac(1) ELSE Frac(0))
    ELSE IF value <= mid
         THEN (IF mid # low THEN <<value - low, mid - low>> ELSE Frac(1))
    ELSE IF value <= high
         THEN (IF high # mid THEN <<high - value, high - mid>> ELSE Frac(1))
    ELSE Frac(0)

\* Membership degrees of the inference are counted in units of
\* 1/DegreeScale, the common denominator of the ramps of the document
TermsOf(variable) == {variable.terms[t] : t \in DOMAIN variable.terms}

RampWidths ==
    UNION {{term[2] - term[1], term[3] - term[2]} :
              term \in TermsOf(FuzzyTerms.budget)
                       \cup TermsOf(FuzzyTerms.spiciness)} \ {0}

DegreeScale == LcmOf(RampWidths)

Degree(value, term) ==
    LET m == fuzzy_membership(value, term[1], term[2], term[3])
    IN  (m[1] * DegreeScale) \div m[2]

\* an inference whose rule 5 (medium budget, medium spice) concludes medium
rules_activation_rule5_medium(config, budget, spiciness) ==
    LET budget_low == Degree(budget, config.budget.terms.low)
        budget_medium == Degree(budget, config.budget.terms.medium)
        budget_high == Degree(budget, config.budget.terms.high)
        spice_mild == Degree(spiciness, config.spiciness.terms.mild)
        spice_medium == Degree(spiciness, config.spiciness.terms.medium)
        spice_spicy == Degree(spiciness, config.spiciness.terms.spicy)
    IN  [high |-> MaxOf({MinOf({budget_low, spice_mild}),
                         MinOf({budget_high, spice_spicy})}),
         medium |-> MaxOf({MinOf({budget_low, spice_medium}),
                           MinOf({budget_low, spice_spicy}),
                           MinOf({budget_medium, spice_mild}),
                           MinOf({budget_medium, spice_medium}),
                           MinOf({budget_medium, spice_spicy}),
                           MinOf({budget_high, spice_medium})}),
         low |-> MinOf({budget_high, spice_mild})]

\* an inference without rule 7 (high budget, mild spice)
rules_activation_without_rule7(config, budget, spiciness) ==
    LET budget_low == Degree(budget, config.budget.terms.low)
        budget_medium == Degree(budget, config.budget.terms.medium)
        budget_high == Degree(budget, config.budget.terms.high)
        spice_mild == Degree(spiciness, config.spiciness.terms.mild)
        spice_medium == Degree(spiciness, config.spiciness.terms.medium)
        spice_spicy == Degree(spiciness, config.spiciness.terms.spicy)
    IN  [high |-> MaxOf({MinOf({budget_low, spice_mild}),
                         MinOf({budget_medium, spice_medium}),
                         MinOf({budget_high, spice_spicy})}),
         medium |-> MaxOf({MinOf({budget_low, spice_medium}),
                           MinOf({budget_low, spice_spicy}),
                           MinOf({budget_medium, spice_mild}),
                           MinOf({budget_medium, spice_spicy}),
                           MinOf({budget_high, spice_medium})}),
         low |-> 0]

\* rules_activation of simple_fuzzy_inference (min-max inference)
rules_activation(config, budget, spiciness) ==
    LET budget_low == Degree(budget, config.budget.terms.low)
        budget_medium == Degree(budget, config.budget.terms.medium)
        budget_high == Degree(budget, config.budget.terms.high)
        spice_mild == Degree(spiciness, config.spiciness.terms.mild)
        spice_medium == Degree(spiciness, config.spiciness.terms.medium)
        spice_spicy == Degree(spiciness, config.spiciness.terms.spicy)
    IN  [high |-> MaxOf({MinOf({budget_low, spice_mild}),
                         MinOf({budget_medium, spice_medium}),
                         MinOf({budget_high, spice_spicy})}),
         medium |-> MaxOf({MinOf({budget_low, spice_medium}),
                           MinOf({budget_low, spice_spicy}),
                           MinOf({budget_medium, spice_mild}),
                           MinOf({budget_medium, spice_spicy}),
                           MinOf({budget_high, spice_medium})}),
         low |-> MinOf({budget_high, spice_mild})]

\* score_values and the clamp range of simple_fuzzy_inference
ScoreHigh == 8
ScoreMedium == 5
ScoreLow == 2
ScoreFloor == 0
ScoreCeiling == 10

\* a defuzzification that adds the weighted activations up, without
\* dividing by their sum and without the clamp
DefuzzifyWeightedSum(act) ==
    <<act.high * ScoreHigh + act.medium * ScoreMedium + act.low * ScoreLow,
      DegreeScale>>

\* Defuzzification by weighted average, clamped to the output range
Defuzzify(act) ==
    LET total_activation == act.high + act.medium + act.low
        weighted == act.high * ScoreHigh + act.medium * ScoreMedium
                    + act.low * ScoreLow
        score == IF total_activation > 0 THEN <<weighted, total_activation>>
                 ELSE Frac(0)
        capped == IF FracLt(score, Frac(ScoreCeiling)) THEN score
                  ELSE Frac(ScoreCeiling)
    IN  IF FracLt(Frac(ScoreFloor), capped) THEN capped ELSE Frac(ScoreFloor)

\* a fallback in the middle of the output range
FallbackScoreNeutral == Frac(5)

\* the score the except branches of the inference fall back to
FallbackScore == Frac(0)

\* simple_fuzzy_inference: any exception (a failed configuration load)
\* yields the fallback score
simple_fuzzy_inference(doc, budget, spiciness) ==
    LET loaded == load_fuzzy_config(doc)
    IN  IF loaded.raised THEN FallbackScore
        ELSE Defuzzify(rules_activation(loaded.config, budget, spiciness))

\* Catalogue dishes and preference values of the model
Dish(name, price, cuisine, spiciness, meal_type, is_halal, is_vegetarian) ==
    [name |-> name, price |-> price, cuisine |-> cuisine,
     spiciness |-> spiciness, meal_type |-> meal_type,
     is_halal |-> is_halal, is_vegetarian |-> is_vegetarian]

\* Dishes in the style of the seeded catalogue, priced around a budget of 5
DishPool ==
    {Dish("Chicken Rice", 4, "Chinese", 1, "main_course", FALSE, FALSE),
     Dish("Vegetarian Bee Hoon", 5, "Chinese", 2, "main_course", TRUE, TRUE),
     Dish("Nasi Padang", 6, "Malay", 7, "main_course", TRUE, FALSE),
     Dish("Chendol", 4, "Malay", 0, "dessert", FALSE, TRUE)}

\* Preference values of the model
BudgetValues == {5, 60}
SpicinessValues == {1, 3}

\* What inputs.get("budget", 0) and inputs.get("spiciness", 0) can yield:
\* the values of the preferences, of the dishes, and the default
InferenceBudgets == BudgetValues \cup {0}
InferenceSpiciness == SpicinessValues \cup {d.spiciness : d \in DishPool} \cup {0}

\* simple_fuzzy_inference tabulated over the inputs of the model (the code
\* recomputes it on every call; the value depends on nothing else)
InferenceTable ==
    [doc \in FuzzyConfigDocuments |->
        [budget \in InferenceBudgets |->
            [spiciness \in InferenceSpiciness |->
                simple_fuzzy_inference(doc, budget, spiciness)]]]

\* fuzzy_engine: recommendation_score of the inference result; an exception
\* escaping the inference would yield 0.0 as well
fuzzy_engine(doc, budget, spiciness) == InferenceTable[doc][budget][spiciness]

(***************************************************************************)
(* Inputs: catalogue dishes, preferences and deployment settings           *)
(***************************************************************************)
\* Candidate lists: up to MaxDishes distinct dishes, in any order
DishLists ==
    UNION {{ds \in [1..n -> DishPool] :
               \A i, j \in 1..n : i # j => ds[i] # ds[j]} : n \in 0..MaxDishes}

\* models.UserPreferences
Preferences ==
    [budget : BudgetValues,
     cuisine : {"chinese", "Malay", "ANY"},
     spiciness : SpicinessValues,
     is_halal : BOOLEAN,
     is_vegetarian : BOOLEAN,
     meal_type : {None, "Main_Course"}]

\* ScoringConfig: the default bonuses and a deployment that penalises the
\* cuisine rule through CUISINE_BONUS
DefaultScoring ==
    [CUISINE_BONUS |-> 1, HALAL_BONUS |-> 2,
     VEGETARIAN_BONUS |-> 2, MEAL_TYPE_BONUS |-> 5]

ScoringConfigs ==
    {DefaultScoring, [DefaultScoring EXCEPT !.CUISINE_BONUS = -9]}

\* Settings.max_recommendations (MAX_RECOMMENDATIONS, default 3)
DefaultMaxRecommendations == 3
MaxRecommendationsValues == 1..DefaultMaxRecommendations

(***************************************************************************)
(* RecommendationEngine.calculate_recommendations                          *)
(***************************************************************************)
\* a filter with the comparison turned around
exceeds_budget_reversed(dish, budget) == dish.price < budget

\* a filter that also drops a dish priced exactly at the budget
exceeds_budget_strict(dish, budget) == dish.price >= budget

\* the hard budget filter: the dish is skipped
exceeds_budget(dish, budget) == dish.price > budget

\* a cuisine rule that compares the strings as written
cuisine_rule_case_sensitive(prefs, dish) ==
    \/ prefs.cuisine = "any"
    \/ prefs.cuisine = dish.cuisine

\* self.user_prefs.get("cuisine", "any")
cuisine_or_any(prefs) ==
    IF prefs.cuisine = Missing THEN "any" ELSE prefs.cuisine

cuisine_rule(prefs, dish) ==
    \/ Lower(cuisine_or_any(prefs)) = "any"
    \/ Lower(cuisine_or_any(prefs)) = Lower(dish.cuisine)

\* a halal rule that looks at the dish alone
halal_rule_ignores_preference(prefs, dish) == dish.is_halal

halal_rule(prefs, dish) == prefs.is_halal /\ dish.is_halal

vegetarian_rule(prefs, dish) == prefs.is_vegetarian /\ dish.is_vegetarian

\* a meal type rule that compares the strings as written
meal_type_rule_case_sensitive(prefs, dish) ==
    Truthy(prefs.meal_type) /\ prefs.meal_type = dish.meal_type

meal_type_rule(prefs, dish) ==
    Truthy(prefs.meal_type) /\ Lower(prefs.meal_type) = Lower(dish.meal_type)

BaseReason == <<"Base compatibility score">>
CuisineReason(dish) == <<"Matches cuisine: ", dish.cuisine>>
HalalReason == <<"Is Halal">>
VegetarianReason == <<"Is Vegetarian">>
MealTypeReason(dish) == <<"Matches meal type: ", dish.meal_type>>

\* reasons that always start with the base reason
base_reasons_always(base_score) == <<BaseReason>>

\* the reasons start with the base reason when the base score is positive
base_reasons(base_score) ==
    IF FracLt(Frac(0), base_score) THEN <<BaseReason>> ELSE <<>>

\* inference inputs that take the spiciness from the dish
inference_inputs_dish_spiciness(dish, prefs) ==
    [budget |-> prefs.budget, spiciness |-> dish.spiciness]

\* the mapping handed to fuzzy_engine: the preference's own values
inference_inputs(dish, prefs) ==
    [budget |-> prefs.budget, spiciness |-> prefs.spiciness]

\* the loop body for one dish within budget: its score and reasons
score_dish(dish, prefs, sc, doc) ==
    LET inputs == inference_inputs(dish, prefs)
        base_score == fuzzy_engine(doc, inputs.budget, inputs.spiciness)
        r0 == base_reasons(base_score)
        s0 == base_score
        c == cuisine_rule(prefs, dish)
        s1 == IF c THEN FracPlus(s0, sc.CUISINE_BONUS) ELSE s0
        r1 == IF c THEN Append(r0, CuisineReason(dish)) ELSE r0
        h == halal_rule(prefs, dish)
        s2 == IF h THEN FracPlus(s1, sc.HALAL_BONUS) ELSE s1
        r2 == IF h THEN Append(r1, HalalReason) ELSE r1
        v == vegetarian_rule(prefs, dish)
        s3 == IF v THEN FracPlus(s2, sc.VEGETARIAN_BONUS) ELSE s2
        r3 == IF v THEN Append(r2, VegetarianReason) ELSE r2
        m == meal_type_rule(prefs, dish)
        s4 == IF m THEN FracPlus(s3, sc.MEAL_TYPE_BONUS) ELSE s3
        r4 == IF m THEN Append(r3, MealTypeReason(dish)) ELSE r3
    IN  [dish |-> dish, score |-> s4, reasons |-> r4]

\* a retention test that lets a zero score through
keeps_nonnegative(entry) == FracLe(Frac(0), entry.score)

\* only dishes with a positive final score are appended
keeps(entry) == FracLt(Frac(0), entry.score)

\* one iteration of the loop: the scored list after this dish
score_step(dish, prefs, sc, doc, acc) ==
    LET entry == score_dish(dish, prefs, sc, doc)
    IN  IF exceeds_budget(dish, prefs.budget) THEN acc
        ELSE IF keeps(entry) THEN Append(acc, entry)
        ELSE acc

RECURSIVE score_loop(_, _, _, _, _)
score_loop(ds, prefs, sc, doc, acc) ==
    IF ds = <<>> THEN acc
    ELSE score_loop(Tail(ds), prefs, sc, doc,
                    score_step(Head(ds), prefs, sc, doc, acc))

\* the rule body: self.scored_dishes after the rule fired, given its value
\* before
calculate_recommendations(ds, prefs, sc, doc, scored) ==
    score_loop(ds, prefs, sc, doc, <<>>)

\* the rule body raises: None has no lower(), which the cuisine rule calls
\* on the first dish that passes the budget filter
rule_raises(ds, prefs) ==
    /\ prefs.cuisine = None
    /\ \E i \in 1..Len(ds) : ~exceeds_budget(ds[i], prefs.budget)

(***************************************************************************)
(* RecommendationEngine.get_recommendations                                *)
(***************************************************************************)
\* an engine that never clears the scored list of an earlier run
run_engine_accumulating(ds, prefs, sc, doc, scored) ==
    score_loop(ds, prefs, sc, doc, scored)

\* self.reset(); self.scored_dishes = []; self.run(): the rule fires once
run_engine(ds, prefs, sc, doc, scored) ==
    calculate_recommendations(ds, prefs, sc, doc, <<>>)

\* a filter check that leaves out the budget
_dish_passes_filters_without_budget(dish, prefs) ==
    IF Lower(prefs.cuisine) # "any"
       /\ Lower(dish.cuisine) # Lower(prefs.cuisine) THEN FALSE
    ELSE IF prefs.is_halal /\ ~dish.is_halal THEN FALSE
    ELSE IF prefs.is_vegetarian /\ ~dish.is_vegetarian THEN FALSE
    ELSE TRUE

\* a filter check that leaves out the halal flag
_dish_passes_filters_without_halal(dish, prefs) ==
    IF dish.price > prefs.budget THEN FALSE
    ELSE IF Lower(prefs.cuisine) # "any"
            /\ Lower(dish.cuisine) # Lower(prefs.cuisine) THEN FALSE
    ELSE IF prefs.is_vegetarian /\ ~dish.is_vegetarian THEN FALSE
    ELSE TRUE

_dish_passes_filters(dish, prefs) ==
    IF dish.price > prefs.budget THEN FALSE
    ELSE IF Lower(prefs.cuisine) # "any"
            /\ Lower(dish.cuisine) # Lower(prefs.cuisine) THEN FALSE
    ELSE IF prefs.is_halal /\ ~dish.is_halal THEN FALSE
    ELSE IF prefs.is_vegetarian /\ ~dish.is_vegetarian THEN FALSE
    ELSE TRUE

filtered_count(ds, prefs) ==
    Cardinality({i \in 1..Len(ds) : _dish_passes_filters(ds[i], prefs)})

\* a list that names a filter only when it excludes a candidate
filters_applied_excluding(ds, prefs) ==
    (IF \E i \in 1..Len(ds) : ds[i].price > prefs.budget
     THEN <<"budget">> ELSE <<>>)
    \o (IF \E i \in 1..Len(ds) :
               /\ Lower(prefs.cuisine) # "any"
               /\ Lower(ds[i].cuisine) # Lower(prefs.cuisine)
        THEN <<"cuisine">> ELSE <<>>)
    \o (IF \E i \in 1..Len(ds) : prefs.is_halal /\ ~ds[i].is_halal
        THEN <<"halal">> ELSE <<>>)
    \o (IF \E i \in 1..Len(ds) : prefs.is_vegetarian /\ ~ds[i].is_vegetarian
        THEN <<"vegetarian">> ELSE <<>>)

filters_applied(ds, prefs) ==
    (IF \E i \in 1..Len(ds) : ds[i].price > prefs.budget
     THEN <<"budget">> ELSE <<>>)
    \o (IF Lower(prefs.cuisine) # "any" THEN <<"cuisine">> ELSE <<>>)
    \o (IF prefs.is_halal THEN <<"halal">> ELSE <<>>)
    \o (IF prefs.is_vegetarian THEN <<"vegetarian">> ELSE <<>>)

InSeq(x, seq) == \E i \in 1..Len(seq) : seq[i] = x

\* " or ".join(suggestions)
RECURSIVE Join(_)
Join(parts) ==
    IF Len(parts) <= 1 THEN parts
    ELSE <<Head(parts), " or ">> \o Join(Tail(parts))

\* a suggestion string is the sequence of its fragments; None is <<None>>
NoSuggestions == <<None>>

_generate_suggestions(filters) ==
    LET suggestions ==
            (IF InSeq("budget", filters)
             THEN <<"try increasing your budget">> ELSE <<>>)
            \o (IF InSeq("cuisine", filters)
                THEN <<"consider trying 'any' cuisine type">> ELSE <<>>)
            \o (IF InSeq("halal", filters)
                THEN <<"expand to include non-halal options if acceptable">>
                ELSE <<>>)
            \o (IF InSeq("vegetarian", filters)
                THEN <<"consider non-vegetarian options if acceptable">>
                ELSE <<>>)
    IN  IF suggestions = <<>>
        THEN <<"Try adjusting your preferences for more options.">>
        ELSE <<"To find more options, ">> \o Join(suggestions) \o <<".">>

\* sorted(..., key=score, reverse=True): a stable sort, equal scores keep
\* their order
RECURSIVE InsertByScore(_, _)
InsertByScore(entry, sorted) ==
    IF sorted = <<>> THEN <<entry>>
    ELSE IF FracLt(Head(sorted).score, entry.score) THEN <<entry>> \o sorted
    ELSE <<Head(sorted)>> \o InsertByScore(entry, Tail(sorted))

RECURSIVE SortFrom(_, _)
SortFrom(rest, sorted) ==
    IF rest = <<>> THEN sorted
    ELSE SortFrom(Tail(rest), InsertByScore(Head(rest), sorted))

\* an insertion that puts an entry in front of the entries of equal score
RECURSIVE InsertBeforeTies(_, _)
InsertBeforeTies(entry, sorted) ==
    IF sorted = <<>> THEN <<entry>>
    ELSE IF FracLe(Head(sorted).score, entry.score) THEN <<entry>> \o sorted
    ELSE <<Head(sorted)>> \o InsertBeforeTies(entry, Tail(sorted))

RECURSIVE SortFromBeforeTies(_, _)
SortFromBeforeTies(rest, sorted) ==
    IF rest = <<>> THEN sorted
    ELSE SortFromBeforeTies(Tail(rest), InsertBeforeTies(Head(rest), sorted))

\* a descending sort that is not stable: equal scores come out reversed
sorted_recommendations_ties_reversed(scored) == SortFromBeforeTies(scored, <<>>)

\* a sort that leaves out reverse=True
sorted_recommendations_ascending(scored) ==
    LET desc == SortFrom(scored, <<>>)
    IN  [i \in 1..Len(desc) |-> desc[Len(desc) + 1 - i]]

sorted_recommendations(scored) == SortFrom(scored, <<>>)

\* a slice that keeps one entry too many
top_recommendations_off_by_one(seq, n) ==
    SubSeq(seq, 1, IF n + 1 < Len(seq) THEN n + 1 ELSE Len(seq))

\* the slice seq[:n]
top_recommendations(seq, n) ==
    LET stop == IF n >= 0 THEN (IF n < Len(seq) THEN n ELSE Len(seq))
                ELSE (IF Len(seq) + n > 0 THEN Len(seq) + n ELSE 0)
    IN  SubSeq(seq, 1, stop)

\* building the metadata raises: self.user_prefs['cuisine'].lower() on a
\* dict without the key (KeyError) or with None for it (AttributeError)
metadata_raises(ds, prefs) == prefs.cuisine \in {Missing, None}

Metadata(total, filtered, filters, suggestions) ==
    [total_candidates |-> total,
     filtered_candidates |-> filtered,
     scoring_method |-> "fuzzy_logic_with_expert_system",
     filters_applied |-> filters,
     suggestions |-> suggestions]

\* what get_recommendations returns once the engine has run
Returned(ds, prefs, scored, n) ==
    LET filters == filters_applied(ds, prefs)
        count == filtered_count(ds, prefs)
    IN  IF scored = <<>>
        THEN [returned |-> TRUE, raised |-> FALSE,
              recommendations |-> <<>>,
              metadata |-> Metadata(Len(ds), count, filters,
                                    _generate_suggestions(filters))]
        ELSE [returned |-> TRUE, raised |-> FALSE,
              recommendations |->
                  top_recommendations(sorted_recommendations(scored), n),
              metadata |-> Metadata(Len(ds), count, filters, NoSuggestions)]

ErrorSuggestion ==
    <<"An error occurred while generating recommendations. Please try again.">>

\* a handler that lets the exception go on to the caller
except_handler_reraises(ds) ==
    [returned |-> TRUE, raised |-> TRUE, recommendations |-> <<>>,
     metadata |-> Metadata(0, 0, <<>>, NoSuggestions)]

\* except Exception: what the call returns in place of the exception
except_handler(ds) ==
    [returned |-> TRUE, raised |-> FALSE, recommendations |-> <<>>,
     metadata |-> Metadata(Len(ds), 0, <<>>, ErrorSuggestion)]

\* the scored list the try block leaves behind: the rule resets it and
\* raises before its first append
scored_after_run(ds, prefs, sc, doc, scored) ==
    IF rule_raises(ds, prefs) THEN <<>>
    ELSE run_engine(ds, prefs, sc, doc, scored)

\* the outcome of the call: the return value of the try block, or of the
\* handler when the rule or the metadata code raised
outcome(ds, prefs, scored, n) ==
    IF rule_raises(ds, prefs) \/ metadata_raises(ds, prefs)
    THEN except_handler(ds)
    ELSE Returned(ds, prefs, scored, n)

\* no call made yet
NoResult ==
    [returned |-> FALSE, raised |-> FALSE, recommendations |-> <<>>,
     metadata |-> Metadata(0, 0, <<>>, NoSuggestions)]

\* no direct call into the fuzzy layer has been made
NoCall == [op |-> "none"]

FuzzyIdle ==
    /\ fuzzy_call = NoCall
    /\ _fuzzy_system_cache = None
    /\ load_attempts = [reads |-> 0, creates |-> 0]
    /\ callers = <<>>

(***************************************************************************)
(* State machine                                                           *)
(***************************************************************************)
\* RecommendationEngine.__init__ on inputs of a deployment
Init ==
    /\ max_recommendations \in MaxRecommendationsValues
    /\ scoring_config \in ScoringConfigs
    /\ fuzzy_config_doc \in FuzzyConfigDocuments
    /\ dishes \in DishLists
    /\ user_prefs \in Preferences
    /\ scored_dishes = <<>>
    /\ result = NoResult
    /\ calls = 0
    /\ first_result = NoResult
    /\ requests = <<>>
    /\ engines = <<>>
    /\ FuzzyIdle

\* engine.get_recommendations()
get_recommendations ==
    /\ calls < MaxCalls
    /\ \E scored \in {scored_after_run(dishes, user_prefs, scoring_config,
                                         fuzzy_config_doc, scored_dishes)} :
       \E ret \in {outcome(dishes, user_prefs, scored,
                             max_recommendations)} :
           /\ scored_dishes' = scored
           /\ result' = ret
           /\ first_result' = IF first_result.returned THEN first_result ELSE ret
    /\ calls' = calls + 1
    /\ UNCHANGED <<max_recommendations, scoring_config, fuzzy_config_doc,
                   dishes, user_prefs, requests, engines>>
    /\ UNCHANGED fuzzy_vars

\* main.get_recommendations: the next request with the same inputs builds a
\* fresh RecommendationEngine
NewEngine ==
    /\ calls > 0
    /\ scored_dishes' = <<>>
    /\ result' = NoResult
    /\ calls' = 0
    /\ UNCHANGED <<max_recommendations, scoring_config, fuzzy_config_doc,
                   dishes, user_prefs, first_result, requests, engines>>
    /\ UNCHANGED fuzzy_vars

Next == get_recommendations \/ NewEngine

Spec == Init /\ [][Next]_vars

\* Preference dicts handed to the engine directly, which need not be a
\* models.UserPreferences: the cuisine may be absent or None
PreferenceDicts ==
    [budget : BudgetValues,
     cuisine : {"Malay", "ANY", Missing, None},
     spiciness : SpicinessValues,
     is_halal : BOOLEAN,
     is_vegetarian : {FALSE},
     meal_type : {None}]

\* RecommendationEngine.__init__ on any preference dict
InitDicts ==
    /\ max_recommendations \in MaxRecommendationsValues
    /\ scoring_config \in ScoringConfigs
    /\ fuzzy_config_doc \in FuzzyConfigDocuments
    /\ dishes \in DishLists
    /\ user_prefs \in PreferenceDicts
    /\ scored_dishes = <<>>
    /\ result = NoResult
    /\ calls = 0
    /\ first_result = NoResult
    /\ requests = <<>>
    /\ engines = <<>>
    /\ FuzzyIdle

SpecDicts == InitDicts /\ [][Next]_vars

(***************************************************************************)
(* Two /recommend requests served at the same time (the endpoint is a      *)
(* plain def, which the server runs on a thread pool).  A request goes     *)
(* through: construct (engine built), run (scored list reset), loop (one   *)
(* dish per step), collect (metadata, sort, slice), done.                  *)
(***************************************************************************)
Requests == {1, 2}

\* the preferences of the concurrent requests
ConcurrentPreferences ==
    {p \in Preferences :
        /\ p.budget = 5 /\ p.spiciness = 1 /\ p.meal_type = None
        /\ p.cuisine \in {"ANY", "Malay"}
        /\ ~p.is_vegetarian}

\* the catalogue the requests read: at least two dishes
CatalogueLists == {ds \in DishLists : Len(ds) >= 2}

\* one engine instance that serves every request
engine_of_shared(r) == 1

\* the engine instance of a request: each request constructs its own
engine_of(r) == r

\* the requests that are between construction and return
Running == {r \in Requests : requests[r].pc \in {"run", "loop", "collect"}}

\* the request has taken a step while another one was running
Overlap(r) == requests[r].overlapped \/ Running \ {r} # {}

InitConcurrent ==
    /\ max_recommendations \in MaxRecommendationsValues
    /\ scoring_config = DefaultScoring
    /\ fuzzy_config_doc \in FuzzyConfigDocuments
    /\ dishes \in CatalogueLists
    /\ user_prefs = <<>>
    /\ scored_dishes = <<>>
    /\ result = NoResult
    /\ calls = 0
    /\ first_result = NoResult
    /\ \E prefs \in [Requests -> ConcurrentPreferences] :
           requests = [r \in Requests |->
                          [pc |-> "construct", prefs |-> prefs[r], i |-> 0,
                           overlapped |-> FALSE, result |-> NoResult]]
    /\ engines = [e \in Requests |-> <<>>]
    /\ FuzzyIdle

\* RecommendationEngine(dishes=list(dishes), user_prefs=prefs.model_dump())
Construct(r) ==
    /\ requests[r].pc = "construct"
    /\ engines' = [engines EXCEPT ![engine_of(r)] = <<>>]
    /\ requests' = [requests EXCEPT ![r].pc = "run",
                                     ![r].overlapped = Overlap(r)]
    /\ UNCHANGED <<max_recommendations, scoring_config, fuzzy_config_doc,
                   dishes, user_prefs, scored_dishes, result, calls,
                   first_result>>
    /\ UNCHANGED fuzzy_vars

\* get_recommendations up to the start of the loop: the scored list is reset
BeginRun(r) ==
    /\ requests[r].pc = "run"
    /\ engines' = [engines EXCEPT ![engine_of(r)] = <<>>]
    /\ requests' = [requests EXCEPT
                        ![r].pc = IF Len(dishes) = 0 THEN "collect" ELSE "loop",
                        ![r].i = 1,
                        ![r].overlapped = Overlap(r)]
    /\ UNCHANGED <<max_recommendations, scoring_config, fuzzy_config_doc,
                   dishes, user_prefs, scored_dishes, result, calls,
                   first_result>>
    /\ UNCHANGED fuzzy_vars

\* one iteration of the loop over self.dishes
ScoreDish(r) ==
    /\ requests[r].pc = "loop"
    /\ \E acc \in {score_step(dishes[requests[r].i], requests[r].prefs,
                               scoring_config, fuzzy_config_doc,
                               engines[engine_of(r)])} :
           engines' = [engines EXCEPT ![engine_of(r)] = acc]
    /\ requests' = [requests EXCEPT
                        ![r].pc = IF requests[r].i = Len(dishes)
                                  THEN "collect" ELSE "loop",
                        ![r].i = requests[r].i + 1,
                        ![r].overlapped = Overlap(r)]
    /\ UNCHANGED <<max_recommendations, scoring_config, fuzzy_config_doc,
                   dishes, user_prefs, scored_dishes, result, calls,
                   first_result>>
    /\ UNCHANGED fuzzy_vars

\* the rest of get_recommendations: metadata, sort, slice, return
Collect(r) ==
    /\ requests[r].pc = "collect"
    /\ \E ret \in {outcome(dishes, requests[r].prefs, engines[engine_of(r)],
                             max_recommendations)} :
           requests' = [requests EXCEPT ![r].pc = "done",
                                        ![r].result = ret,
                                        ![r].overlapped = Overlap(r)]
    /\ UNCHANGED <<max_recommendations, scoring_config, fuzzy_config_doc,
                   dishes, user_prefs, scored_dishes, result, calls,
                   first_result, engines>>
    /\ UNCHANGED fuzzy_vars

NextConcurrent ==
    \E r \in Requests :
        Construct(r) \/ BeginRun(r) \/ ScoreDish(r) \/ Collect(r)

SpecConcurrent == InitConcurrent /\ [][NextConcurrent]_vars

(***************************************************************************)
(* Direct calls of fuzzy_membership and fuzzy_engine, as the tests make    *)
(* them: any value against any triple, any input against any document     *)
(***************************************************************************)
MaxTermPoint == 4

\* the points a term triple is made of, and the values evaluated against it
TermPoints == 0..MaxTermPoint
MembershipValues == -1..(MaxTermPoint + 1)

\* a document that json.load accepts although its budget term low has
\* low > mid
MalformedTerms == [FuzzyTerms EXCEPT !.budget.terms.low = <<10, 0, 15>>]

FuzzyCallDocuments ==
    FuzzyConfigDocuments \cup {[readable |-> TRUE, content |-> MalformedTerms]}

\* inputs of fuzzy_engine: inside and outside the universes of the document
EngineBudgets == {5 * k : k \in 0..12}
EngineSpiciness == 0..11

\* the rule table of create_fuzzy_system
FuzzyRules ==
    {[budget |-> "low", spiciness |-> "mild", consequence |-> "high"],
     [budget |-> "low", spiciness |-> "medium", consequence |-> "medium"],
     [budget |-> "low", spiciness |-> "spicy", consequence |-> "medium"],
     [budget |-> "medium", spiciness |-> "mild", consequence |-> "medium"],
     [budget |-> "medium", spiciness |-> "medium", consequence |-> "high"],
     [budget |-> "medium", spiciness |-> "spicy", consequence |-> "medium"],
     [budget |-> "high", spiciness |-> "mild", consequence |-> "low"],
     [budget |-> "high", spiciness |-> "medium", consequence |-> "medium"],
     [budget |-> "high", spiciness |-> "spicy", consequence |-> "high"]}

InitFuzzy ==
    /\ max_recommendations = DefaultMaxRecommendations
    /\ scoring_config = DefaultScoring
    /\ fuzzy_config_doc \in FuzzyCallDocuments
    /\ dishes = <<>>
    /\ user_prefs = <<>>
    /\ scored_dishes = <<>>
    /\ result = NoResult
    /\ calls = 0
    /\ first_result = NoResult
    /\ requests = <<>>
    /\ engines = <<>>
    /\ FuzzyIdle

\* fuzzy_membership(value, low, mid, high): it has no raise statement and
\* guards both divisions, so it returns a degree for every argument.  The
\* functions keep no state, so a behaviour makes one call.
fuzzy_membership_call ==
    /\ fuzzy_call = NoCall
    /\ \E value \in MembershipValues, low, mid, high \in TermPoints :
           fuzzy_call' = [op |-> "fuzzy_membership", value |-> value,
                          low |-> low, mid |-> mid, high |-> high,
                          raised |-> FALSE,
                          degree |-> fuzzy_membership(value, low, mid, high)]
    /\ UNCHANGED <<fuzzy_config_doc, _fuzzy_system_cache, load_attempts,
                   callers>>
    /\ UNCHANGED engine_vars

\* fuzzy_engine({"budget": budget, "spiciness": spiciness})
fuzzy_engine_call ==
    /\ fuzzy_call = NoCall
    /\ \E budget \in EngineBudgets, spiciness \in EngineSpiciness :
           \E score \in {simple_fuzzy_inference(fuzzy_config_doc, budget,
                                                spiciness)} :
               fuzzy_call' = [op |-> "fuzzy_engine", budget |-> budget,
                              spiciness |-> spiciness, raised |-> FALSE,
                              recommendation_score |-> score]
    /\ UNCHANGED <<fuzzy_config_doc, _fuzzy_system_cache, load_attempts,
                   callers>>
    /\ UNCHANGED engine_vars

NextFuzzy == fuzzy_membership_call \/ fuzzy_engine_call

SpecFuzzy == InitFuzzy /\ [][NextFuzzy]_vars

(***************************************************************************)
(* Vocabulary of the properties                                            *)
(***************************************************************************)
Recs == result.recommendations

\* positions of the candidates that are within budget
WithinBudget == {i \in 1..Len(dishes) : dishes[i].price <= user_prefs.budget}

\* the base score of the request
BaseScore ==
    fuzzy_engine(fuzzy_config_doc, user_prefs.budget, user_prefs.spiciness)

\* the conditions of the four bonus rules, as the rule table states them
CuisineHolds(d) ==
    \/ Lower(user_prefs.cuisine) = "any"
    \/ Lower(user_prefs.cuisine) = Lower(d.cuisine)
HalalHolds(d) == user_prefs.is_halal /\ d.is_halal
VegetarianHolds(d) == user_prefs.is_vegetarian /\ d.is_vegetarian
MealTypeHolds(d) ==
    /\ user_prefs.meal_type # None
    /\ Lower(user_prefs.meal_type) = Lower(d.meal_type)

\* base score plus the bonuses of the rules whose condition holds
ExpectedScore(d) ==
    FracPlus(BaseScore,
             (IF CuisineHolds(d) THEN scoring_config.CUISINE_BONUS ELSE 0)
             + (IF HalalHolds(d) THEN scoring_config.HALAL_BONUS ELSE 0)
             + (IF VegetarianHolds(d)
                THEN scoring_config.VEGETARIAN_BONUS ELSE 0)
             + (IF MealTypeHolds(d)
                THEN scoring_config.MEAL_TYPE_BONUS ELSE 0))

\* positions of the candidates that qualify: within budget, positive score
Qualifying == {i \in WithinBudget : FracLt(Frac(0), ExpectedScore(dishes[i]))}

Recommended(d) == \E k \in 1..Len(Recs) : Recs[k].dish = d

(***************************************************************************)
(* C1..C5: filter, positivity, truncation, idempotence, ranking            *)
(***************************************************************************)
\* C1: every returned entry has dish price <= preference budget.
C1_WithinBudget ==
    result.returned =>
        \A k \in 1..Len(Recs) : Recs[k].dish.price <= user_prefs.budget

\* a non-empty result although a candidate priced above the budget was given
C1_Witness ==
    /\ result.returned
    /\ Len(Recs) > 0
    /\ \E i \in 1..Len(dishes) : dishes[i].price > user_prefs.budget

\* C2: every returned entry has score > 0, and a candidate whose final score
\* (base score plus fired bonuses) is <= 0 is not in the result.
C2_PositiveScores ==
    result.returned =>
        /\ \A k \in 1..Len(Recs) : FracLt(Frac(0), Recs[k].score)
        /\ \A i \in 1..Len(dishes) :
               FracLe(ExpectedScore(dishes[i]), Frac(0))
                   => ~Recommended(dishes[i])

\* a non-empty result from which a candidate within budget with a
\* non-positive final score was left out
C2_Witness ==
    /\ result.returned
    /\ Len(Recs) > 0
    /\ \E i \in WithinBudget : FracLe(ExpectedScore(dishes[i]), Frac(0))

\* C3: for a positive max_recommendations the result has at most
\* max_recommendations entries.
C3_AtMostMax ==
    (result.returned /\ max_recommendations > 0)
        => Len(Recs) <= max_recommendations

\* more candidates were scored than may be returned
C3_Witness ==
    /\ result.returned
    /\ Len(scored_dishes) > max_recommendations
    /\ Len(Recs) = max_recommendations

\* C4: identical inputs yield identical results (dishes, scores, reasons,
\* order, metadata): every call returns what the first call on these
\* inputs returned, on the same engine and on a fresh one.
C4_Idempotent == result.returned => result = first_result

\* a repeated call on one engine that returned recommendations
C4_Witness ==
    /\ calls = MaxCalls
    /\ result.returned
    /\ Len(Recs) > 0

\* C5: the result is sorted by score, non-increasing, and no qualifying
\* candidate left out of it has a score strictly greater than a returned
\* entry.
C5_TopOfRanking ==
    result.returned =>
        /\ \A j, k \in 1..Len(Recs) :
               j < k => FracLe(Recs[k].score, Recs[j].score)
        /\ \A i \in Qualifying :
               ~Recommended(dishes[i])
                   => \A k \in 1..Len(Recs) :
                          FracLe(ExpectedScore(dishes[i]), Recs[k].score)

\* the result was truncated and the scored list was not in ranking order
C5_Witness ==
    /\ result.returned
    /\ Len(Recs) > 0
    /\ Len(Recs) < Len(scored_dishes)
    /\ \E j, k \in 1..Len(scored_dishes) :
           j < k /\ FracLt(scored_dishes[j].score, scored_dishes[k].score)

(***************************************************************************)
(* C6..C10: bonus rules and reasons                                        *)
(***************************************************************************)
\* the entry the loop computes for candidate i
EntryOf(i) ==
    score_dish(dishes[i], user_prefs, scoring_config, fuzzy_config_doc)

\* the reasons the rule table prescribes, in its order
ExpectedReasons(d) ==
    (IF FracLt(Frac(0), BaseScore) THEN <<BaseReason>> ELSE <<>>)
    \o (IF CuisineHolds(d) THEN <<CuisineReason(d)>> ELSE <<>>)
    \o (IF HalalHolds(d) THEN <<HalalReason>> ELSE <<>>)
    \o (IF VegetarianHolds(d) THEN <<VegetarianReason>> ELSE <<>>)
    \o (IF MealTypeHolds(d) THEN <<MealTypeReason(d)>> ELSE <<>>)

\* the bonus an entry's reasons account for, per rule
CuisinePart(e) ==
    IF InSeq(CuisineReason(e.dish), e.reasons)
    THEN scoring_config.CUISINE_BONUS ELSE 0
HalalPart(e) ==
    IF InSeq(HalalReason, e.reasons) THEN scoring_config.HALAL_BONUS ELSE 0
VegetarianPart(e) ==
    IF InSeq(VegetarianReason, e.reasons)
    THEN scoring_config.VEGETARIAN_BONUS ELSE 0
MealTypePart(e) ==
    IF InSeq(MealTypeReason(e.dish), e.reasons)
    THEN scoring_config.MEAL_TYPE_BONUS ELSE 0

\* C6: the final score of each scored candidate is the base fuzzy score plus
\* the bonuses of exactly the rules whose condition holds (cuisine, halal,
\* vegetarian, meal type); a rule whose condition is false adds nothing.
C6_ScoreIsBasePlusBonuses ==
    result.returned =>
        /\ \A k \in 1..Len(scored_dishes) :
               FracEq(scored_dishes[k].score,
                      ExpectedScore(scored_dishes[k].dish))
        /\ \A k \in 1..Len(Recs) :
               FracEq(Recs[k].score, ExpectedScore(Recs[k].dish))

\* a returned entry with a positive base score on which at least two rules
\* fired and at least one did not
C6_Witness ==
    /\ result.returned
    /\ FracLt(Frac(0), BaseScore)
    /\ \E k \in 1..Len(Recs) :
           LET d == Recs[k].dish
               fired == {r \in {"cuisine", "halal", "vegetarian", "meal"} :
                            \/ r = "cuisine" /\ CuisineHolds(d)
                            \/ r = "halal" /\ HalalHolds(d)
                            \/ r = "vegetarian" /\ VegetarianHolds(d)
                            \/ r = "meal" /\ MealTypeHolds(d)}
           IN  Cardinality(fired) \in {2, 3}

\* C7: the reasons of every returned entry are exactly the base reason
\* (iff the base score is positive), the cuisine match, 'Is Halal',
\* 'Is Vegetarian' and the meal type match (each iff its rule fired), in
\* this order, none twice.
C7_ReasonsInTableOrder ==
    result.returned =>
        \A k \in 1..Len(Recs) :
            Recs[k].reasons = ExpectedReasons(Recs[k].dish)

\* a returned entry that carries all five reasons
C7_Witness ==
    /\ result.returned
    /\ \E k \in 1..Len(Recs) : Len(Recs[k].reasons) = 5

C9_CuisineCaseInsensitive ==
    result.returned =>
        /\ \A i \in WithinBudget :
               LET e == EntryOf(i)
               IN  /\ CuisineHolds(e.dish)
                          <=> InSeq(CuisineReason(e.dish), e.reasons)
                   /\ FracEq(e.score,
                             FracPlus(BaseScore,
                                      HalalPart(e) + VegetarianPart(e)
                                      + MealTypePart(e)
                                      + (IF CuisineHolds(e.dish)
                                         THEN scoring_config.CUISINE_BONUS
                                         ELSE 0)))
        /\ \A k \in 1..Len(Recs) :
               CuisineHolds(Recs[k].dish)
                   <=> InSeq(CuisineReason(Recs[k].dish), Recs[k].reasons)

\* a returned entry whose cuisine matches the preference only up to case
C9_Witness ==
    /\ result.returned
    /\ \E k \in 1..Len(Recs) :
           /\ user_prefs.cuisine # Recs[k].dish.cuisine
           /\ Lower(user_prefs.cuisine) = Lower(Recs[k].dish.cuisine)
           /\ InSeq(CuisineReason(Recs[k].dish), Recs[k].reasons)

\* C10: a halal and vegetarian dish under a preference that requests both
\* has 'Is Halal' before 'Is Vegetarian', both after any cuisine reason, and
\* both bonuses in its score; a flag the preference does not request adds
\* neither its reason nor its bonus, whatever the dish.
C10_DietaryBonuses ==
    result.returned =>
        \A k \in 1..Len(scored_dishes) :
            LET e == scored_dishes[k]
                d == e.dish
                n == Len(e.reasons)
            IN  /\ (/\ user_prefs.is_halal /\ user_prefs.is_vegetarian
                    /\ d.is_halal /\ d.is_vegetarian)
                       => \E h, v \in 1..n :
                              /\ h < v
                              /\ e.reasons[h] = HalalReason
                              /\ e.reasons[v] = VegetarianReason
                              /\ \A c \in 1..n :
                                     e.reasons[c] = CuisineReason(d) => c < h
                /\ ~user_prefs.is_halal => ~InSeq(HalalReason, e.reasons)
                /\ ~user_prefs.is_vegetarian
                       => ~InSeq(VegetarianReason, e.reasons)
                /\ FracEq(e.score,
                          FracPlus(BaseScore,
                                   CuisinePart(e) + MealTypePart(e)
                                   + (IF HalalHolds(d)
                                      THEN scoring_config.HALAL_BONUS ELSE 0)
                                   + (IF VegetarianHolds(d)
                                      THEN scoring_config.VEGETARIAN_BONUS
                                      ELSE 0)))

\* a returned halal and vegetarian dish under a preference requesting both,
\* with a cuisine reason
C10_Witness ==
    /\ result.returned
    /\ user_prefs.is_halal /\ user_prefs.is_vegetarian
    /\ \E k \in 1..Len(Recs) :
           /\ Recs[k].dish.is_halal /\ Recs[k].dish.is_vegetarian
           /\ InSeq(CuisineReason(Recs[k].dish), Recs[k].reasons)
           /\ InSeq(HalalReason, Recs[k].reasons)
           /\ InSeq(VegetarianReason, Recs[k].reasons)

(***************************************************************************)
(* C11..C16: categorical constraints, base score, metadata                 *)
(***************************************************************************)
\* C11: every returned dish respects the categorical constraints of the
\* preference: halal if halal is requested, vegetarian if vegetarian is
\* requested, of the named cuisine if the cuisine is not 'any'.
C11_CategoricalConstraints ==
    result.returned =>
        \A k \in 1..Len(Recs) :
            LET d == Recs[k].dish
            IN  /\ user_prefs.is_halal => d.is_halal
                /\ user_prefs.is_vegetarian => d.is_vegetarian
                /\ Lower(user_prefs.cuisine) # "any"
                       => Lower(d.cuisine) = Lower(user_prefs.cuisine)

\* the part of an entry's score that its bonus reasons do not account for
BaseOf(e) ==
    FracPlus(e.score,
             0 - (CuisinePart(e) + HalalPart(e) + VegetarianPart(e)
                  + MealTypePart(e)))

\* C12: the base fuzzy score depends only on the preference's budget and
\* spiciness: every candidate of a request, whatever its attributes, gets
\* the one base score inferred from the preference, so the final scores of
\* two candidates differ only by their bonuses.
C12_BaseScoreFromPreference ==
    result.returned =>
        /\ \A i \in WithinBudget : FracEq(BaseOf(EntryOf(i)), BaseScore)
        /\ \A j, k \in 1..Len(scored_dishes) :
               FracEq(BaseOf(scored_dishes[j]), BaseOf(scored_dishes[k]))

\* two returned dishes of different spiciness, scored on a positive base
C12_Witness ==
    /\ result.returned
    /\ FracLt(Frac(0), BaseScore)
    /\ \E j, k \in 1..Len(Recs) :
           /\ Recs[j].dish.spiciness # Recs[k].dish.spiciness
           /\ Recs[j].dish.spiciness # user_prefs.spiciness
           /\ ~FracEq(Recs[j].score, Recs[k].score)

C14_FilteredCoversReturned ==
    (result.returned /\ Recs # <<>>) =>
        /\ result.metadata.filtered_candidates >= Len(Recs)
        /\ result.metadata.suggestions = NoSuggestions

\* the filters by name: what each would exclude from the input
Excludes(filter, d) ==
    CASE filter = "budget" -> d.price > user_prefs.budget
      [] filter = "cuisine" ->
             /\ Lower(user_prefs.cuisine) # "any"
             /\ Lower(d.cuisine) # Lower(user_prefs.cuisine)
      [] filter = "halal" -> user_prefs.is_halal /\ ~d.is_halal
      [] filter = "vegetarian" -> user_prefs.is_vegetarian /\ ~d.is_vegetarian

FilterNames == {"budget", "cuisine", "halal", "vegetarian"}

ExcludesSome(filter) == \E i \in 1..Len(dishes) : Excludes(filter, dishes[i])

C16_CandidateCounts ==
    result.returned =>
        /\ result.metadata.total_candidates = Len(dishes)
        /\ result.metadata.filtered_candidates =
               Cardinality({i \in 1..Len(dishes) :
                               /\ dishes[i].price <= user_prefs.budget
                               /\ CuisineHolds(dishes[i])
                               /\ user_prefs.is_halal => dishes[i].is_halal
                               /\ user_prefs.is_vegetarian
                                      => dishes[i].is_vegetarian})
        /\ result.metadata.filtered_candidates
               <= result.metadata.total_candidates

\* a halal request that some candidates within budget pass and others fail
C16_Witness ==
    /\ result.returned
    /\ user_prefs.is_halal
    /\ result.metadata.filtered_candidates > 0
    /\ result.metadata.filtered_candidates < Cardinality(WithinBudget)
    /\ Len(dishes) = MaxDishes

(***************************************************************************)
(* C17..C19: exceptions and the fallback score                             *)
(***************************************************************************)
\* an exception arises while get_recommendations computes
ExceptionRaised ==
    rule_raises(dishes, user_prefs) \/ metadata_raises(dishes, user_prefs)

\* C17: an exception raised while get_recommendations computes (in the rule
\* run or the metadata construction) is never propagated to the caller: the
\* call returns an empty list with metadata {total_candidates = number of
\* input dishes, filtered_candidates = 0, filters_applied = [],
\* suggestions = the error message}.
C17_ExceptionsBecomeErrorMetadata ==
    result.returned =>
        /\ ~result.raised
        /\ ExceptionRaised
               => /\ Recs = <<>>
                  /\ result.metadata.total_candidates = Len(dishes)
                  /\ result.metadata.filtered_candidates = 0
                  /\ result.metadata.filters_applied = <<>>
                  /\ result.metadata.suggestions = ErrorSuggestion
                  /\ result.metadata.suggestions # NoSuggestions

\* the metadata code raised after a rule run that had scored candidates
C17_Witness ==
    /\ result.returned
    /\ user_prefs.cuisine = Missing
    /\ Len(scored_dishes) > 1
    /\ Recs = <<>>
    /\ result.metadata.total_candidates = Len(dishes)

\* C18: a configuration load failure (missing or invalid document) is
\* fatal: the caller gets an error and no recommendation is computed with a
\* fallback score.
C18_ConfigFailureIsFatal ==
    (result.returned /\ load_fuzzy_config(fuzzy_config_doc).raised) =>
        /\ result.raised \/ result.metadata.suggestions = ErrorSuggestion
        /\ Recs = <<>>
        /\ scored_dishes = <<>>

\* C19: fuzzy_engine never raises: for every input (the defaults of missing
\* keys, zero, values outside the universe) it yields a score in the output
\* range; when the inference fails the base score of every item is 0.0,
\* the request goes on, and an item is still scored, on its bonuses alone,
\* exactly when they are positive.
C19_FailSoftInference ==
    /\ \A b \in InferenceBudgets, s \in InferenceSpiciness :
           LET score == fuzzy_engine(fuzzy_config_doc, b, s)
           IN  FracLe(Frac(ScoreFloor), score)
               /\ FracLe(score, Frac(ScoreCeiling))
    /\ (result.returned /\ load_fuzzy_config(fuzzy_config_doc).raised) =>
           /\ ~result.raised
           /\ result.metadata.suggestions # ErrorSuggestion
           /\ FracEq(BaseScore, Frac(0))
           /\ \A k \in 1..Len(scored_dishes) :
                  /\ FracEq(BaseOf(scored_dishes[k]), Frac(0))
                  /\ ~InSeq(BaseReason, scored_dishes[k].reasons)
           /\ \A i \in WithinBudget :
                  FracLt(Frac(0), EntryOf(i).score)
                      <=> \E k \in 1..Len(scored_dishes) :
                              scored_dishes[k].dish = dishes[i]

\* a dish returned without a base reason after a failed configuration load
C19_Witness ==
    /\ result.returned
    /\ load_fuzzy_config(fuzzy_config_doc).raised
    /\ \E k \in 1..Len(Recs) :
           /\ ~InSeq(BaseReason, Recs[k].reasons)
           /\ Len(Recs[k].reasons) > 1

(***************************************************************************)
(* C20: concurrent requests                                                *)
(***************************************************************************)
\* what a request returns when it runs alone
ResultAlone(r) ==
    outcome(dishes, requests[r].prefs,
            run_engine(dishes, requests[r].prefs, scoring_config,
                       fuzzy_config_doc, <<>>),
            max_recommendations)

\* C20: two requests that run at the same time share no working state:
\* under every interleaving of their steps each request returns what it
\* would return running alone.
C20_RequestsIsolated ==
    \A r \in Requests :
        requests[r].pc = "done" => requests[r].result = ResultAlone(r)

\* both requests are done, their runs overlapped, and they returned
\* different non-empty results
C20_Witness ==
    /\ \A r \in Requests :
           /\ requests[r].pc = "done"
           /\ requests[r].overlapped
           /\ requests[r].result.recommendations # <<>>
    /\ requests[1].prefs # requests[2].prefs
    /\ requests[1].result # requests[2].result

(***************************************************************************)
(* C21..C26, C30: membership function and inference                        *)
(***************************************************************************)
MembershipCalled == fuzzy_call.op = "fuzzy_membership"

\* the triple of the call is a well-formed term
WellFormedCall ==
    fuzzy_call.low <= fuzzy_call.mid /\ fuzzy_call.mid <= fuzzy_call.high

\* C21: for every (value, low, mid, high) with low <= mid <= high the degree
\* is in [0, 1], and the degree at value = mid is 1.
C21_DegreeInUnitInterval ==
    (MembershipCalled /\ WellFormedCall) =>
        /\ FracLe(Frac(0), fuzzy_call.degree)
        /\ FracLe(fuzzy_call.degree, Frac(1))
        /\ fuzzy_call.value = fuzzy_call.mid => FracEq(fuzzy_call.degree, Frac(1))

\* a value on the rising ramp, two points above low and below mid
C21_Witness ==
    /\ MembershipCalled
    /\ fuzzy_call.low + 2 = fuzzy_call.value
    /\ fuzzy_call.value < fuzzy_call.mid
    /\ fuzzy_call.mid < fuzzy_call.high
    /\ FracLt(Frac(0), fuzzy_call.degree)
    /\ FracLt(fuzzy_call.degree, Frac(1))

\* C22 as stated: for every well-formed term the degree is 0 for every
\* value < low and every value >= high, degenerate terms with mid = high
\* included.
C22_ZeroOutsideOpenRight ==
    (/\ MembershipCalled
     /\ WellFormedCall
     /\ (fuzzy_call.value < fuzzy_call.low
         \/ fuzzy_call.value >= fuzzy_call.high))
        => FracEq(fuzzy_call.degree, Frac(0))

\* C22, amended: for every well-formed term the degree is 0 for every
\* value < low, every value > high, and for value = high when mid < high;
\* for a term with mid = high the value high is the peak and has degree 1.
C22_ZeroOutsideExceptPeak ==
    (MembershipCalled /\ WellFormedCall) =>
        /\ (\/ fuzzy_call.value < fuzzy_call.low
            \/ fuzzy_call.value > fuzzy_call.high
            \/ fuzzy_call.value = fuzzy_call.high
               /\ fuzzy_call.mid < fuzzy_call.high)
               => FracEq(fuzzy_call.degree, Frac(0))
        /\ (fuzzy_call.value = fuzzy_call.high
            /\ fuzzy_call.mid = fuzzy_call.high)
               => FracEq(fuzzy_call.degree, Frac(1))

\* the right end of a term whose peak is its right end
C22_Witness ==
    /\ MembershipCalled
    /\ fuzzy_call.low < fuzzy_call.mid
    /\ fuzzy_call.mid = fuzzy_call.high
    /\ fuzzy_call.value = fuzzy_call.high
    /\ FracEq(fuzzy_call.degree, Frac(1))


\* C24: the degree is 1 only when value = mid, or value = low and
\* low = mid; for low < mid the degree at value = low is 0, it rises
\* linearly to 1 at mid and falls linearly to 0 at high.
C24_PeakOnlyAtMid ==
    (MembershipCalled /\ WellFormedCall) =>
        LET value == fuzzy_call.value
            low == fuzzy_call.low
            mid == fuzzy_call.mid
            high == fuzzy_call.high
        IN  /\ FracEq(fuzzy_call.degree, Frac(1))
                   => (value = mid \/ (value = low /\ low = mid))
            /\ (low < mid /\ value = low) => FracEq(fuzzy_call.degree, Frac(0))
            /\ (low < value /\ value < mid)
                   => FracEq(fuzzy_call.degree, <<value - low, mid - low>>)
            /\ (mid < value /\ value < high)
                   => FracEq(fuzzy_call.degree, <<high - value, high - mid>>)

EngineCalled == fuzzy_call.op = "fuzzy_engine"

\* the activations of the call, as simple_fuzzy_inference computes them
CallActivation ==
    rules_activation(fuzzy_config_doc.content, fuzzy_call.budget,
                     fuzzy_call.spiciness)

\* C23: for every (budget, spiciness) input the recommendation_score of
\* fuzzy_engine lies in the output range [0, 10].
C23_ScoreInRange ==
    EngineCalled =>
        /\ FracLe(Frac(0), fuzzy_call.recommendation_score)
        /\ FracLe(fuzzy_call.recommendation_score, Frac(10))

\* a call whose weighted activations add up to more than 10
C23_Witness ==
    /\ EngineCalled
    /\ fuzzy_config_doc.readable
    /\ CallActivation.high * ScoreHigh + CallActivation.medium * ScoreMedium
       + CallActivation.low * ScoreLow > 10 * DegreeScale
    /\ FracLt(Frac(0), fuzzy_call.recommendation_score)

\* the strength of a rule of the table: the min of its two degrees
RuleStrength(rule) ==
    LET config == fuzzy_config_doc.content
    IN  MinOf({Degree(fuzzy_call.budget, config.budget.terms[rule.budget]),
               Degree(fuzzy_call.spiciness,
                      config.spiciness.terms[rule.spiciness])})

\* the activation of an output term: the max over the rules of the table
\* that conclude it
ReferenceActivation(term) ==
    MaxOf({RuleStrength(rule) :
              rule \in {r \in FuzzyRules : r.consequence = term}})

\* C25: the base score is the min-max inference over the 9 rules of the
\* rule table of create_fuzzy_system with weighted-average defuzzification:
\* (2*low + 5*medium + 8*high activation) / (sum of the activations), and 0
\* when the sum is 0.
C25_ReferenceInference ==
    (EngineCalled /\ fuzzy_config_doc.readable) =>
        LET low == ReferenceActivation("low")
            medium == ReferenceActivation("medium")
            high == ReferenceActivation("high")
            total == low + medium + high
        IN  /\ Cardinality(FuzzyRules) = 9
            /\ total > 0
                   => FracEq(fuzzy_call.recommendation_score,
                             <<2 * low + 5 * medium + 8 * high, total>>)
            /\ total = 0 => FracEq(fuzzy_call.recommendation_score, Frac(0))

\* a call that activates all three output terms
C25_Witness ==
    /\ EngineCalled
    /\ fuzzy_config_doc.readable
    /\ ReferenceActivation("low") > 0
    /\ ReferenceActivation("medium") > 0
    /\ ReferenceActivation("high") > 0
    /\ ReferenceActivation("high") # ReferenceActivation("medium")

\* some term of the variable has a positive degree for the value
SomeTermPositive(variable, value) ==
    \E t \in DOMAIN variable.terms : Degree(value, variable.terms[t]) > 0

HasMalformedTerm(config) ==
    \E v \in {"budget", "spiciness", "recommendation_score"} :
        \E t \in DOMAIN config[v].terms :
            LET term == config[v].terms[t]
            IN  term[1] > term[2] \/ term[2] > term[3]

\* C30: a malformed term (low > mid or mid > high) that reaches the
\* membership evaluator or is present in the loaded configuration is
\* rejected as an error; it is never turned into a membership degree.
C30_MalformedTermRejected ==
    /\ (MembershipCalled /\ ~WellFormedCall) => fuzzy_call.raised
    /\ (EngineCalled /\ fuzzy_config_doc.readable
        /\ HasMalformedTerm(fuzzy_config_doc.content))
           => /\ load_fuzzy_config(fuzzy_config_doc).raised
              /\ fuzzy_call.recommendation_score = FallbackScore


(***************************************************************************)
(* C27: ties in the ranking                                                *)
(***************************************************************************)
\* the position of a dish in the input list (the dishes of a list differ)
PositionOf(dish) == CHOOSE i \in 1..Len(dishes) : dishes[i] = dish

\* the entry is among the returned recommendations
Returns(entry) == \E k \in 1..Len(Recs) : Recs[k] = entry

\* C27: among scored candidates of equal final score the result keeps the
\* order of the input list: when dish A precedes dish B in the input and
\* both have the same score, A precedes B in the ranking and is truncated no
\* earlier than B.
C27_TiesKeepInputOrder ==
    result.returned =>
        /\ \A j, k \in 1..Len(Recs) :
               (j < k /\ FracEq(Recs[j].score, Recs[k].score))
                   => PositionOf(Recs[j].dish) < PositionOf(Recs[k].dish)
        /\ \A a, b \in 1..Len(scored_dishes) :
               (/\ a < b
                /\ FracEq(scored_dishes[a].score, scored_dishes[b].score)
                /\ Returns(scored_dishes[b]))
                   => Returns(scored_dishes[a])

\* three candidates tie, two of them are returned and the last one of the
\* input is cut off
C27_Witness ==
    /\ result.returned
    /\ Len(scored_dishes) = 3
    /\ Len(Recs) = 2
    /\ FracEq(Recs[1].score, Recs[2].score)
    /\ FracEq(Recs[2].score, scored_dishes[3].score)
    /\ ~Returns(scored_dishes[3])


(***************************************************************************)
(* Configuration loading: get_fuzzy_system called from several threads     *)
(* and simple_fuzzy_inference called any number of times                   *)
(***************************************************************************)
MaxCallerCalls == 2
MaxReads == 3

\* the threads that call get_fuzzy_system
Callers == {1, 2}

\* the nth FuzzySystem object create_fuzzy_system has built
FuzzySystem(n) == "FuzzySystem#" \o ToString(n)

\* what a thread holds when an exception left get_fuzzy_system
Raised == "<raised>"

InitConfig ==
    /\ max_recommendations = DefaultMaxRecommendations
    /\ scoring_config = DefaultScoring
    /\ fuzzy_config_doc \in FuzzyConfigDocuments
    /\ dishes = <<>>
    /\ user_prefs = <<>>
    /\ scored_dishes = <<>>
    /\ result = NoResult
    /\ calls = 0
    /\ first_result = NoResult
    /\ requests = <<>>
    /\ engines = <<>>
    /\ fuzzy_call = NoCall
    /\ _fuzzy_system_cache = None
    /\ load_attempts = [reads |-> 0, creates |-> 0]
    /\ callers = [t \in Callers |->
                     [pc |-> "idle", calls |-> 0, created |-> None,
                      observed |-> None]]

\* get_fuzzy_system, the test 'if _fuzzy_system_cache is None'
get_fuzzy_system_test(t) ==
    /\ callers[t].pc = "idle"
    /\ callers[t].calls < MaxCallerCalls
    /\ callers' = [callers EXCEPT
                      ![t].pc = IF _fuzzy_system_cache = None
                                THEN "create" ELSE "return",
                      ![t].calls = @ + 1]
    /\ UNCHANGED <<fuzzy_config_doc, fuzzy_call, _fuzzy_system_cache,
                   load_attempts>>
    /\ UNCHANGED engine_vars

\* get_fuzzy_system, the call create_fuzzy_system(): reads the document and
\* builds a new system, or raises what load_fuzzy_config raised
create_fuzzy_system(t) ==
    /\ callers[t].pc = "create"
    /\ load_attempts' = [reads |-> load_attempts.reads + 1,
                         creates |-> load_attempts.creates + 1]
    /\ callers' = IF load_fuzzy_config(fuzzy_config_doc).raised
                  THEN [callers EXCEPT ![t].pc = "idle",
                                       ![t].observed = Raised]
                  ELSE [callers EXCEPT
                           ![t].pc = "assign",
                           ![t].created =
                               FuzzySystem(load_attempts.creates + 1)]
    /\ UNCHANGED <<fuzzy_config_doc, fuzzy_call, _fuzzy_system_cache>>
    /\ UNCHANGED engine_vars

\* get_fuzzy_system, the assignment to the global
get_fuzzy_system_assign(t) ==
    /\ callers[t].pc = "assign"
    /\ _fuzzy_system_cache' = callers[t].created
    /\ callers' = [callers EXCEPT ![t].pc = "return"]
    /\ UNCHANGED <<fuzzy_config_doc, fuzzy_call, load_attempts>>
    /\ UNCHANGED engine_vars

\* get_fuzzy_system, 'return _fuzzy_system_cache'
get_fuzzy_system_return(t) ==
    /\ callers[t].pc = "return"
    /\ callers' = [callers EXCEPT ![t].pc = "idle",
                                  ![t].observed = _fuzzy_system_cache]
    /\ UNCHANGED <<fuzzy_config_doc, fuzzy_call, _fuzzy_system_cache,
                   load_attempts>>
    /\ UNCHANGED engine_vars

\* fuzzy_engine called for a request: simple_fuzzy_inference opens the
\* document itself and does not look at the cache
simple_fuzzy_inference_call ==
    /\ load_attempts.reads < MaxReads
    /\ \E budget \in BudgetValues, spiciness \in SpicinessValues :
           fuzzy_call' =
               [op |-> "fuzzy_engine", budget |-> budget,
                spiciness |-> spiciness, raised |-> FALSE,
                recommendation_score |->
                    fuzzy_engine(fuzzy_config_doc, budget, spiciness)]
    /\ load_attempts' = [load_attempts EXCEPT !.reads = @ + 1]
    /\ UNCHANGED <<fuzzy_config_doc, _fuzzy_system_cache, callers>>
    /\ UNCHANGED engine_vars

NextConfig ==
    \/ \E t \in Callers : get_fuzzy_system_test(t)
    \/ \E t \in Callers : create_fuzzy_system(t)
    \/ \E t \in Callers : get_fuzzy_system_assign(t)
    \/ \E t \in Callers : get_fuzzy_system_return(t)
    \/ simple_fuzzy_inference_call

SpecConfig == InitConfig /\ [][NextConfig]_vars

(***************************************************************************)
(* C28, C29: loading and caching the configuration                         *)
(***************************************************************************)
\* the document has been read successfully at least once
Loaded == fuzzy_config_doc.readable /\ load_attempts.reads > 0

\* C28: the fuzzy configuration is loaded once and cached: after the first
\* successful load no later recommendation request or inference call reads
\* the configuration document again.
C28_LoadedOnce ==
    [][Loaded => load_attempts'.reads = load_attempts.reads]_vars

\* the systems the threads got back from get_fuzzy_system
Observed == {callers[t].observed : t \in Callers} \ {None}

\* C29: loading is synchronised so that only one load attempt ever occurs:
\* under every interleaving of concurrent first calls of get_fuzzy_system,
\* and after a failed first attempt, create_fuzzy_system runs at most once
\* and all callers observe the same cached result.
C29_SingleLoadAttempt ==
    /\ load_attempts.creates <= 1
    /\ Cardinality(Observed) <= 1
====
